---- MODULE Spec2Model ----
(***************************************************************************)
(* Model of the scoring endpoint src/pages/api/score.ts (handler) and of   *)
(* its collaborators as the handler sees them.                             *)
(*                                                                         *)
(* Numbers.  Weights are held in hundredths (0.28 is 28), the two 1..5     *)
(* ratings in tenths (2.5 is 25).  With these units every factor is an     *)
(* integer and the weighted sum `raw` is an integer number of hundredths,  *)
(* so Math.round(raw) is computed exactly.  The IEEE-754 value NaN, which  *)
(* the code produces from undefined * number, is the definition NaN; the   *)
(* arithmetic and comparison operators below give it the JavaScript        *)
(* meaning (NaN propagates, every comparison with NaN is false).           *)
(* The sums are exact here; the code's binary floating point can differ    *)
(* from them only in which way a weighted sum ending in exactly .5 rounds.  *)
(*                                                                         *)
(* Strings.  A string is a sequence of one-character tokens; '' is <<>>.   *)
(* A text returned by the generation service that is a JSON document is a  *)
(* one-token sequence whose token is the document; JSONparse is the table  *)
(* of the documents the model uses.  null is the definition Null.          *)
(***************************************************************************)
EXTENDS Integers, Sequences, FiniteSets, TLC

VARIABLES pc, req, token, user, weights, details, score, tier,
          deepseekResp, llmNarrative, llmRecommendations, profileId, nextId,
          profiles, llm_outputs, res, calls, outcome, env, app_users

vars == <<pc, req, token, user, weights, details, score, tier,
          deepseekResp, llmNarrative, llmRecommendations, profileId, nextId,
          profiles, llm_outputs, res, calls, outcome, env, app_users>>

(***************************************************************************)
(* Values                                                                  *)
(***************************************************************************)
NaN == -1000000

Null == <<"<null>">>

IsNaN(v) == v = NaN

\* truthiness of a string-or-null value (line 179: llmNarrative || ...)
Truthy(s) == s # Null /\ s # <<>>

(***************************************************************************)
(* score.ts line 22 and the arithmetic of lines 86-113                     *)
(***************************************************************************)
Min(a, b) == IF a <= b THEN a ELSE b

Max(a, b) == IF a >= b THEN a ELSE b

\* Math.round of a number given in hundredths: nearest integer, ties up
MathRound100(h) == IF IsNaN(h) THEN NaN ELSE (h + 50) \div 100

clamp(v, a, b) == IF IsNaN(v) THEN NaN ELSE Max(a, Min(b, v))

WeightKeys == {"skills", "performance", "network", "mobility", "notice", "plateau"}

DEFAULT_WEIGHTS ==
  [skills |-> 28, performance |-> 22, network |-> 18,
   mobility |-> 12, notice |-> 12, plateau |-> 8]

\* factor * weights.k, in hundredths; weights.k of an object without the key
\* is undefined and number * undefined is NaN
Times(f, w, k) == IF k \notin DOMAIN w \/ IsNaN(f) THEN NaN ELSE f * w[k]

Plus(a, b) == IF IsNaN(a) \/ IsNaN(b) THEN NaN ELSE a + b

\* lines 88-94 with the values of the two outer buckets exchanged
networkMap_OuterSwapped(bucket) ==
  CASE bucket = "< 500" -> 10
    [] bucket = "500-1,000" -> 50
    [] bucket = "1,001-5,000" -> 30
    [] bucket = "> 5,000" -> 70
    [] OTHER -> 60

\* lines 88-94; the key written "500-1,000" stands for the source's key
\* with an en dash, "1,001-5,000" likewise
networkMap(bucket) ==
  CASE bucket = "< 500" -> 70
    [] bucket = "500-1,000" -> 50
    [] bucket = "1,001-5,000" -> 30
    [] bucket = "> 5,000" -> 10
    [] OTHER -> 60

\* line 96: Number(p.noticePeriodDays ?? 30)
NoticeDays(p) ==
  IF "noticePeriodDays" \in DOMAIN p THEN p.noticePeriodDays ELSE 30

\* lines 97-102 with the first threshold written > 90
NoticeRisk_Above90(notice) ==
  IF notice > 90 THEN 80
  ELSE IF notice >= 60 THEN 70
  ELSE IF notice >= 30 THEN 50
  ELSE IF notice >= 15 THEN 30
  ELSE IF notice >= 7 THEN 20
  ELSE 10

\* lines 97-102
NoticeRisk(notice) ==
  IF notice >= 90 THEN 80
  ELSE IF notice >= 60 THEN 70
  ELSE IF notice >= 30 THEN 50
  ELSE IF notice >= 15 THEN 30
  ELSE IF notice >= 7 THEN 20
  ELSE 10

\* lines 86-103; skillProficiencyAvg and performanceRating are in tenths,
\* so 100 - (x/5)*100 is 100 - 2*x10
Factors(p) ==
  [skillsRisk |-> 100 - 2 * p.skillProficiencyAvg,
   performanceRisk |-> 100 - 2 * p.performanceRating,
   networkRisk |-> networkMap(p.linkedinNetworkSize),
   mobilityRisk |-> IF p.willingToRelocate = "Yes" THEN 10 ELSE 40,
   noticeRisk |-> NoticeRisk(NoticeDays(p)),
   plateauRisk |-> IF p.totalExperience >= 12 THEN 40 ELSE 20]

\* lines 105-110, in hundredths
Raw(d, w) ==
  Plus(Plus(Plus(Plus(Plus(
    Times(d.skillsRisk, w, "skills"),
    Times(d.performanceRisk, w, "performance")),
    Times(d.networkRisk, w, "network")),
    Times(d.mobilityRisk, w, "mobility")),
    Times(d.noticeRisk, w, "notice")),
    Times(d.plateauRisk, w, "plateau"))

\* line 112
Score(d, w) == clamp(MathRound100(Raw(d, w)), 0, 100)

\* line 113 with the first boundary written < 30
Tier_StrictLow(s) ==
  IF ~IsNaN(s) /\ s < 30 THEN "Low"
  ELSE IF ~IsNaN(s) /\ s <= 60 THEN "Medium"
  ELSE "High"

\* line 113; a comparison with NaN is false, so NaN falls to 'High'
Tier(s) ==
  IF ~IsNaN(s) /\ s <= 30 THEN "Low"
  ELSE IF ~IsNaN(s) /\ s <= 60 THEN "Medium"
  ELSE "High"

\* lines 115-122
Explainability(p, d) ==
  << [factor |-> "Skills relevance", value |-> d.skillsRisk,
      text |-> <<"Skill-related risk is", d.skillsRisk>>],
     [factor |-> "Performance", value |-> d.performanceRisk,
      text |-> <<"Performance risk", d.performanceRisk>>],
     [factor |-> "Network", value |-> d.networkRisk,
      text |-> <<"Network risk", d.networkRisk>>],
     [factor |-> "Mobility", value |-> d.mobilityRisk,
      text |-> IF p.willingToRelocate = "Yes"
               THEN <<"Mobility lowers risk.">>
               ELSE <<"Limited mobility increases risk.">>],
     [factor |-> "Notice period", value |-> d.noticeRisk,
      text |-> <<"Notice period risk", d.noticeRisk>>],
     [factor |-> "Experience plateau", value |-> d.plateauRisk,
      text |-> IF d.plateauRisk = 40
               THEN <<"Possible plateau.">>
               ELSE <<"Balanced tenure.">>] >>

\* lines 33-64: the prompt embeds the profile and the six rounded factors
buildDeepseekPrompt(p, d) == [profile |-> p, factors |-> d]

(***************************************************************************)
(* Strings: rawText.split('\n').slice(0,5).map(s => s.trim())              *)
(* .filter(Boolean), line 142                                              *)
(***************************************************************************)
RECURSIVE split(_, _)
\* s.split(sep): the pieces between the separators, in order
split(s, sep) ==
  IF \E i \in 1..Len(s) : s[i] = sep
  THEN LET i == CHOOSE j \in 1..Len(s) :
                  s[j] = sep /\ \A k \in 1..(j - 1) : s[k] # sep
       IN <<SubSeq(s, 1, i - 1)>> \o split(SubSeq(s, i + 1, Len(s)), sep)
  ELSE <<s>>

IsSpace(c) == c = " " \/ c = "\n"

RECURSIVE trim(_)
trim(s) ==
  IF s = <<>> THEN s
  ELSE IF IsSpace(s[1]) THEN trim(Tail(s))
  ELSE IF IsSpace(s[Len(s)]) THEN trim(SubSeq(s, 1, Len(s) - 1))
  ELSE s

\* a.slice(0, n)
slice0(a, n) == SubSeq(a, 1, Min(n, Len(a)))

map_trim(a) == [i \in 1..Len(a) |-> trim(a[i])]

\* a.filter(Boolean) on an array of strings: drops the empty strings
filter_Boolean(a) == SelectSeq(a, LAMBDA s : s # <<>>)

FallbackRecommendations(rawText) ==
  filter_Boolean(map_trim(slice0(split(rawText, "\n"), 5)))

(***************************************************************************)
(* JSON documents the generation service may put in its text               *)
(***************************************************************************)
DocFull == <<"{\"narrative\":\"x\",\"recommendations\":[\"a\",\"b\"]}">>

DocNarrativeOnly == <<"{\"narrative\":\"x\"}">>

DocRecsOnly == <<"{\"recommendations\":[\"a\"]}">>

DocEmpty == <<"{\"narrative\":\"\",\"recommendations\":[]}">>

DocNull == <<"null">>

DocSixRecs ==
  <<"{\"narrative\":\"x\",\"recommendations\":[\"a\",\"b\",\"a\",\"b\",\"a\",\"b\"]}">>

\* JSON.parse(rawText), line 135: ok = FALSE is the thrown SyntaxError
JSONparse(rawText) ==
  CASE rawText = DocFull ->
         [ok |-> TRUE, kind |-> "object",
          obj |-> [narrative |-> <<"x">>,
                   recommendations |-> << <<"a">>, <<"b">> >>]]
    [] rawText = DocNarrativeOnly ->
         [ok |-> TRUE, kind |-> "object", obj |-> [narrative |-> <<"x">>]]
    [] rawText = DocRecsOnly ->
         [ok |-> TRUE, kind |-> "object",
          obj |-> [recommendations |-> << <<"a">> >>]]
    [] rawText = DocEmpty ->
         [ok |-> TRUE, kind |-> "object",
          obj |-> [narrative |-> <<>>, recommendations |-> <<>>]]
    [] rawText = DocSixRecs ->
         [ok |-> TRUE, kind |-> "object",
          obj |-> [narrative |-> <<"x">>,
                   recommendations |->
                     << <<"a">>, <<"b">>, <<"a">>, <<"b">>, <<"a">>, <<"b">> >>]]
    [] rawText = DocNull ->
         [ok |-> TRUE, kind |-> "null", obj |-> [none |-> TRUE]]
    [] OTHER -> [ok |-> FALSE, kind |-> "error", obj |-> [none |-> TRUE]]

\* line 132: resp.text ?? (resp.choices && resp.choices[0]?.text) ?? ''
RawText(resp) ==
  IF "text" \in DOMAIN resp THEN resp.text
  ELSE IF "choices" \in DOMAIN resp /\ Len(resp.choices) > 0
          /\ "text" \in DOMAIN resp.choices[1]
       THEN resp.choices[1].text
  ELSE <<>>

\* lines 132-143 with line 136 always keeping the raw text as the narrative
ParsedNarrative_RawNarrative(resp) ==
  LET rawText == RawText(resp)
      parsed == JSONparse(rawText)
  IN IF parsed.ok /\ parsed.kind = "object"
     THEN [narrative |-> rawText,
           recommendations |->
             IF "recommendations" \in DOMAIN parsed.obj
             THEN parsed.obj.recommendations ELSE <<>>]
     ELSE [narrative |-> rawText,
           recommendations |-> FallbackRecommendations(rawText)]

\* lines 132-143: reading parsed.narrative of a parsed null throws inside the
\* inner try and is caught by the same catch as a SyntaxError
ParsedNarrative(resp) ==
  LET rawText == RawText(resp)
      parsed == JSONparse(rawText)
  IN IF parsed.ok /\ parsed.kind = "object"
     THEN [narrative |->
             IF "narrative" \in DOMAIN parsed.obj
             THEN parsed.obj.narrative ELSE rawText,
           recommendations |->
             IF "recommendations" \in DOMAIN parsed.obj
             THEN parsed.obj.recommendations ELSE <<>>]
     ELSE [narrative |-> rawText,
           recommendations |-> FallbackRecommendations(rawText)]

\* lines 126-147 with the catch of line 144 storing the error's message as
\* the narrative
NarrativeResult_ErrorText(gen) ==
  IF gen.kind # "resp"
  THEN [narrative |-> <<"e">>, recommendations |-> <<>>]
  ELSE ParsedNarrative(gen.resp)

\* lines 126-147: the narrative step, from the outcome of deepseekGenerate.
\* A rejected call leaves the initial null and [] of lines 126-127 in place.
NarrativeResult(gen) ==
  IF gen.kind # "resp"
  THEN [narrative |-> Null, recommendations |-> <<>>]
  ELSE ParsedNarrative(gen.resp)

(***************************************************************************)
(* Inputs: the request and the replies of the collaborators                *)
(***************************************************************************)
Methods == {"POST", "GET"}

\* req.headers: the authorization header may be absent
HeaderSets ==
  { [host |-> "h"],
    [host |-> "h", authorization |-> <<"Bearer ">>],
    [host |-> "h", authorization |-> <<"Bearer ", "t1">>],
    [host |-> "h", authorization |-> <<"Bearer ", "t0">>] }

\* tenths; 60 is above the documented 1-5 range
SkillValues == {0, 25, 50, 60}

\* tenths; -10 is below the documented 1-5 range
RatingValues == {-10, 30, 50}

NetworkValues == {"< 500", "500-1,000", "1,001-5,000", "> 5,000", ">5,000"}

RelocateValues == {"Yes", "No"}

NoticeValues == {0, 89, 90}

ExperienceValues == {5, 12}

\* req.body as Payload; noticePeriodDays may be missing (line 96)
Profiles ==
  [fullName : {"n"}, email : {"e"},
   totalExperience : ExperienceValues,
   skillProficiencyAvg : SkillValues,
   performanceRating : RatingValues,
   linkedinNetworkSize : NetworkValues,
   willingToRelocate : RelocateValues,
   noticePeriodDays : NoticeValues]
  \cup
  [fullName : {"n"}, email : {"e"},
   totalExperience : ExperienceValues,
   skillProficiencyAvg : SkillValues,
   performanceRating : RatingValues,
   linkedinNetworkSize : NetworkValues,
   willingToRelocate : RelocateValues]

\* auth.getUser(token) resolves to { data, error }.  The token t1 is the one
\* the identity service resolves to a user.  check-admin.ts line 3 and
\* score.ts line 76 read the user at data.user; score.ts line 77 reads it at
\* data.data.user.  The client is built outside these sources, so both
\* shapes of data are replies the handler may receive.
ValidTokens == { <<"t1">> }

AuthReplies(tok) ==
  IF tok \in ValidTokens
  THEN { [error |-> FALSE, data |-> [user |-> "u1"]],
         [error |-> FALSE, data |-> [user |-> "u1", data |-> [user |-> "u1"]]] }
  ELSE { [error |-> TRUE, data |-> [user |-> "<null>"]],
         [error |-> FALSE, data |-> [user |-> "<null>"]] }

\* from('weights')...limit(1).single() resolves to { data, error }: no row
\* (empty table), store unreachable, or the most recently updated row
WeightReplies ==
  { [tag |-> "empty", data |-> [null |-> TRUE]],
    [tag |-> "unavailable", data |-> [null |-> TRUE]],
    [tag |-> "row", data |-> [id |-> 1]],
    [tag |-> "row", data |-> [id |-> 1, weights |-> DEFAULT_WEIGHTS]],
    [tag |-> "row", data |-> [id |-> 1, weights |->
        [skills |-> 100, performance |-> 100, network |-> 100,
         mobility |-> 100, notice |-> 100, plateau |-> 100]]],
    [tag |-> "row", data |-> [id |-> 1, weights |->
        [skills |-> -50, performance |-> 22, network |-> 18,
         mobility |-> 12, notice |-> 12, plateau |-> 8]]],
    [tag |-> "row", data |-> [id |-> 1, weights |->
        [skills |-> 28, performance |-> 22, network |-> 18,
         mobility |-> 12, notice |-> 12]]] }

PlainText == <<"a", "\n", "\n", " ", "b", " ", "\n", "b">>

\* six lines, the second one empty: "a\n\nb\n a\nb\na"
PlainSixLines ==
  <<"a", "\n", "\n", "b", "\n", " ", "a", "\n", "b", "\n", "a">>

\* deepseekGenerate(...) resolves to a response or rejects (non-2xx, network
\* failure)
GenerateReplies ==
  { [kind |-> "throw", resp |-> [none |-> TRUE]],
    [kind |-> "resp", resp |-> [text |-> DocFull]],
    [kind |-> "resp", resp |-> [text |-> DocNarrativeOnly]],
    [kind |-> "resp", resp |-> [text |-> DocEmpty]],
    [kind |-> "resp", resp |-> [text |-> <<>>]],
    [kind |-> "resp", resp |-> [choices |-> << [text |-> DocRecsOnly] >>]],
    [kind |-> "resp", resp |-> [choices |-> << [text |-> PlainText] >>]],
    [kind |-> "resp", resp |-> [choices |-> << [text |-> DocSixRecs] >>]],
    [kind |-> "resp", resp |-> [text |-> PlainSixLines]],
    [kind |-> "resp", resp |-> [choices |-> <<>>]] }

ProfileInsertReplies == {"ok", "error"}

LlmInsertReplies == {"ok", "error", "throw"}

(***************************************************************************)
(* The handler, lines 66-200, cut at its awaits                            *)
(***************************************************************************)
NoBody == [none |-> TRUE]

Respond(status, body) == [status |-> status, body |-> body]

\* 'Bearer ' removed once, line 70
replace(s, tok) ==
  IF \E i \in 1..Len(s) : s[i] = tok
  THEN LET i == CHOOSE j \in 1..Len(s) :
                  s[j] = tok /\ \A k \in 1..(j - 1) : s[k] # tok
       IN SubSeq(s, 1, i - 1) \o SubSeq(s, i + 1, Len(s))
  ELSE s

\* lines 69-70
TokenOf(headers) ==
  replace(IF "authorization" \in DOMAIN headers
          THEN headers.authorization ELSE <<>>, "Bearer ")

Init ==
  /\ pc = "received"
  /\ req \in [method : Methods, headers : HeaderSets, body : Profiles]
  /\ token = <<>>
  /\ user = "<unset>"
  /\ weights = DEFAULT_WEIGHTS
  /\ details = [unset |-> TRUE]
  /\ score = 0
  /\ tier = "<unset>"
  /\ deepseekResp = [none |-> TRUE]
  /\ llmNarrative = Null
  /\ llmRecommendations = <<>>
  /\ profileId = 0
  /\ nextId = 1
  /\ profiles = {}
  /\ llm_outputs = {}
  /\ res = Respond(0, NoBody)
  /\ calls = <<>>
  /\ outcome = [auth |-> "none", weights |-> "none", gen |-> "none",
                profile |-> "none", llm |-> "none"]
  /\ env = [NODE_ENV |-> "production"]
  /\ app_users = {}

\* lines 67-75: method and token checks, then the identity lookup is issued
Receive ==
  /\ pc = "received"
  /\ token' = TokenOf(req.headers)
  /\ IF req.method # "POST"
     THEN /\ res' = Respond(405, [error |-> "Method not allowed"])
          /\ pc' = "done"
          /\ calls' = calls
     ELSE IF token' = <<>>
     THEN /\ res' = Respond(401, [error |-> "Missing token"])
          /\ pc' = "done"
          /\ calls' = calls
     ELSE /\ res' = res
          /\ pc' = "getUser"
          /\ calls' = Append(calls, "getUser")
  /\ UNCHANGED <<env, app_users, deepseekResp>>
  /\ UNCHANGED <<req, user, weights, details, score, tier, llmNarrative,
                 llmRecommendations, profileId, nextId, profiles,
                 llm_outputs, outcome>>

\* line 76 without its second test, !userData?.user
AuthRejected_ErrorOnly(reply) == reply.error

\* line 76
AuthRejected(reply) == reply.error \/ reply.data.user = "<null>"

\* line 77: userData.data.user throws a TypeError when userData.data is
\* undefined
UserReadThrows(userData) == "data" \notin DOMAIN userData

\* lines 75-82: the identity reply, then the weight read is issued
GetUserReply ==
  /\ pc = "getUser"
  /\ \E reply \in AuthReplies(token) :
       IF AuthRejected(reply)
       THEN /\ res' = Respond(401, [error |-> "Invalid token"])
            /\ pc' = "done"
            /\ outcome' = [outcome EXCEPT !.auth = "rejected"]
            /\ UNCHANGED <<user, calls>>
       ELSE IF UserReadThrows(reply.data)
       THEN \* caught at line 196
            /\ res' = Respond(500, [error |-> "Cannot read properties of undefined"])
            /\ pc' = "done"
            /\ outcome' = [outcome EXCEPT !.auth = "user"]
            /\ UNCHANGED <<user, calls>>
       ELSE /\ user' = reply.data.data.user
            /\ res' = res
            /\ pc' = "weights"
            /\ outcome' = [outcome EXCEPT !.auth = "user"]
            /\ calls' = Append(calls, "weights.select")
  /\ UNCHANGED <<env, app_users, deepseekResp>>
  /\ UNCHANGED <<req, token, weights, details, score, tier, llmNarrative,
                 llmRecommendations, profileId, nextId, profiles, llm_outputs>>

\* line 83: wdata?.weights ?? DEFAULT_WEIGHTS
ResolveWeights(wdata) ==
  IF "weights" \in DOMAIN wdata THEN wdata.weights ELSE DEFAULT_WEIGHTS

\* lines 82-130: the weight reply, factors, score and tier, then the
\* generation call is issued
WeightsReply ==
  /\ pc = "weights"
  /\ \E reply \in WeightReplies :
       /\ weights' = ResolveWeights(reply.data)
       /\ outcome' = [outcome EXCEPT !.weights =
             IF reply.tag # "row" THEN reply.tag
             ELSE IF "weights" \notin DOMAIN reply.data THEN "row_without_vector"
             ELSE IF WeightKeys \subseteq DOMAIN reply.data.weights THEN "vector"
             ELSE "malformed"]
  /\ details' = Factors(req.body)
  /\ score' = Score(details', weights')
  /\ tier' = Tier(score')
  /\ pc' = "generate"
  /\ calls' = calls \o <<"compute", "deepseekGenerate">>
  /\ UNCHANGED <<env, app_users, deepseekResp>>
  /\ UNCHANGED <<req, token, user, llmNarrative, llmRecommendations,
                 profileId, nextId, profiles, llm_outputs, res>>

\* lines 144-150 with the catch of line 144 rethrowing to line 196
AfterGenerate_Rethrow(gen) ==
  IF gen.kind = "resp" THEN "profile_insert" ELSE "done"

\* lines 144-150: where the handler goes after the narrative step; a
\* rejected call is caught and logged, and the handler goes on to the insert
AfterGenerate(gen) == "profile_insert"

\* lines 129-172: the outcome of the generation call, then the profile
\* record is built and its insert issued
Generated(gen) ==
  /\ pc = "generate"
  /\ deepseekResp' = gen.resp
  /\ llmNarrative' = NarrativeResult(gen).narrative
  /\ llmRecommendations' = NarrativeResult(gen).recommendations
  /\ outcome' = [outcome EXCEPT !.gen = gen.kind]
  /\ pc' = AfterGenerate(gen)
  /\ IF pc' = "profile_insert"
     THEN /\ profileId' = nextId
          /\ nextId' = nextId + 1
          /\ calls' = Append(calls, "profiles.insert")
          /\ res' = res
     ELSE /\ res' = Respond(500, [error |-> "generation failed"])
          /\ UNCHANGED <<profileId, nextId, calls>>
  /\ UNCHANGED <<env, app_users>>
  /\ UNCHANGED <<req, token, user, weights, details, score, tier,
                 profiles, llm_outputs>>

\* the generation service answers: a response or a rejection
GenerateReply == \E gen \in GenerateReplies : Generated(gen)

\* the generation call is cut off by its timeout, which rejects it
GenerateTimeout == Generated([kind |-> "timeout", resp |-> [none |-> TRUE]])

\* lines 151-171 with risk_score zeroed when there is no narrative
InsertRow_ScoreNeedsNarrative ==
  [id |-> profileId, user_id |-> user, profile |-> req.body,
   risk_score |-> IF llmNarrative = Null THEN 0 ELSE score,
   risk_details |-> details,
   llm_explain |-> llmNarrative, llm_recommendations |-> llmRecommendations]

\* lines 151-171
InsertRow ==
  [id |-> profileId, user_id |-> user, profile |-> req.body,
   risk_score |-> score, risk_details |-> details,
   llm_explain |-> llmNarrative, llm_recommendations |-> llmRecommendations]

\* line 195 without the placeholder
SuccessBody_NoPlaceholder(dataId) ==
  [ok |-> TRUE, score |-> score, tier |-> tier,
   explainability |-> Explainability(req.body, details),
   recommendations |-> llmRecommendations,
   profileId |-> dataId]

\* line 195
SuccessBody(dataId) ==
  [ok |-> TRUE, score |-> score, tier |-> tier,
   explainability |-> Explainability(req.body, details),
   recommendations |-> IF Len(llmRecommendations) > 0
                       THEN llmRecommendations
                       ELSE << <<"See dashboard for recommended actions.">> >>,
   profileId |-> dataId]

\* line 179 with the condition dropped
HasLlmOutput_Always == TRUE

\* line 179
HasLlmOutput == Truthy(llmNarrative) \/ Len(llmRecommendations) > 0

\* line 173 with the error test dropped
ProfileInsertFailed_Ignored(reply) == FALSE

\* line 173: if (error)
ProfileInsertFailed(reply) == reply = "error"

\* lines 172-181 and 195: the profile insert's reply
ProfileInsertReply ==
  /\ pc = "profile_insert"
  /\ \E reply \in ProfileInsertReplies :
       /\ outcome' = [outcome EXCEPT !.profile = reply]
       /\ IF ProfileInsertFailed(reply)
          THEN /\ res' = Respond(500, [error |-> "insert failed"])
               /\ pc' = "done"
               /\ UNCHANGED <<profiles, calls>>
          ELSE /\ profiles' = profiles \cup {InsertRow}
               /\ IF HasLlmOutput
                  THEN /\ pc' = "llm_insert"
                       /\ calls' = Append(calls, "llm_outputs.insert")
                       /\ res' = res
                  ELSE /\ pc' = "done"
                       /\ calls' = calls
                       /\ res' = Respond(200, SuccessBody(profileId))
  /\ UNCHANGED <<env, app_users, deepseekResp>>
  /\ UNCHANGED <<req, token, user, weights, details, score, tier,
                 llmNarrative, llmRecommendations, profileId, nextId,
                 llm_outputs>>

\* lines 181-189; created_at is left out
LlmRow ==
  [id |-> nextId, profile_id |-> profileId, provider |-> "deepseek",
   model |-> "deepseek-2025-small",
   prompt |-> buildDeepseekPrompt(req.body, details),
   response |-> [narrative |-> llmNarrative,
                 recommendations |-> llmRecommendations]]

\* lines 180-195 without the try/catch of lines 180 and 190: a rejected
\* insert reaches the catch of line 196
LlmInsertResponse_Uncaught(reply) ==
  IF reply = "throw"
  THEN Respond(500, [error |-> "llm_outputs insert failed"])
  ELSE Respond(200, SuccessBody(profileId))

\* lines 180-195: the response after the LLM-output insert; the insert's
\* result is not read and a rejection is caught at line 190
LlmInsertResponse(reply) == Respond(200, SuccessBody(profileId))

\* lines 181-195: the LLM-output insert's reply
LlmInsertReply ==
  /\ pc = "llm_insert"
  /\ \E reply \in LlmInsertReplies :
       /\ outcome' = [outcome EXCEPT !.llm = reply]
       /\ llm_outputs' = IF reply = "ok" THEN llm_outputs \cup {LlmRow}
                         ELSE llm_outputs
       /\ res' = LlmInsertResponse(reply)
  /\ nextId' = nextId + 1
  /\ pc' = "done"
  /\ UNCHANGED <<env, app_users, deepseekResp>>
  /\ UNCHANGED <<req, token, user, weights, details, score, tier,
                 llmNarrative, llmRecommendations, profileId, profiles, calls>>

Next ==
  \/ Receive
  \/ GetUserReply
  \/ WeightsReply
  \/ GenerateReply
  \/ GenerateTimeout
  \/ ProfileInsertReply
  \/ LlmInsertReply

Spec == Init /\ [][Next]_vars

\* The identity service and the store answer every call; the generation
\* service need not answer, but its call is bounded by the timeout.
LiveSpec ==
  /\ Spec
  /\ WF_vars(Receive)
  /\ WF_vars(GetUserReply)
  /\ WF_vars(WeightsReply)
  /\ WF_vars(GenerateTimeout)
  /\ WF_vars(ProfileInsertReply)
  /\ WF_vars(LlmInsertReply)

TypeOK ==
  /\ pc \in {"received", "getUser", "weights", "generate", "profile_insert",
             "llm_insert", "done", "factors", "factors_done", "check_admin"}
  /\ res.status \in {0, 200, 401, 405, 500}

(***************************************************************************)
(* The factor and score computation of lines 85-113 on its own, over every *)
(* notice period up to MaxNoticeDays                                       *)
(***************************************************************************)
MaxNoticeDays == 91

FactorProfiles ==
  [fullName : {"n"}, email : {"e"},
   totalExperience : ExperienceValues,
   skillProficiencyAvg : SkillValues,
   performanceRating : RatingValues,
   linkedinNetworkSize : NetworkValues,
   willingToRelocate : RelocateValues,
   noticePeriodDays : (-1)..MaxNoticeDays]
  \cup
  [fullName : {"n"}, email : {"e"},
   totalExperience : ExperienceValues,
   skillProficiencyAvg : SkillValues,
   performanceRating : RatingValues,
   linkedinNetworkSize : NetworkValues,
   willingToRelocate : RelocateValues]

FactorInit ==
  /\ pc = "factors"
  /\ req \in [method : {"POST"},
              headers : {[host |-> "h", authorization |-> <<"Bearer ", "t1">>]},
              body : FactorProfiles]
  /\ token = <<"t1">>
  /\ user = "u1"
  /\ weights = DEFAULT_WEIGHTS
  /\ details = [unset |-> TRUE]
  /\ score = 0
  /\ tier = "<unset>"
  /\ deepseekResp = [none |-> TRUE]
  /\ llmNarrative = Null
  /\ llmRecommendations = <<>>
  /\ profileId = 0
  /\ nextId = 1
  /\ profiles = {}
  /\ llm_outputs = {}
  /\ res = Respond(0, NoBody)
  /\ calls = <<>>
  /\ outcome = [auth |-> "user", weights |-> "empty", gen |-> "none",
                profile |-> "none", llm |-> "none"]
  /\ env = [NODE_ENV |-> "production"]
  /\ app_users = {}

\* lines 85-113
ComputeFactors ==
  /\ pc = "factors"
  /\ details' = Factors(req.body)
  /\ score' = Score(details', weights)
  /\ tier' = Tier(score')
  /\ pc' = "factors_done"
  /\ UNCHANGED <<req, token, user, weights, deepseekResp, llmNarrative,
                 llmRecommendations, profileId, nextId, profiles,
                 llm_outputs, res, calls, outcome, env, app_users>>

FactorNext == ComputeFactors

FactorSpec == FactorInit /\ [][FactorNext]_vars

(***************************************************************************)
(* The admin check, src/pages/api/check-admin.ts.  A JavaScript value of   *)
(* the is_admin column is written with its type: "bool:true" is true,      *)
(* "str:true" the string 'true'.                                           *)
(***************************************************************************)
MaxEnvLen == 4

EnvChars == {"a", "b", ",", " "}

RECURSIVE StringsUpTo(_)
StringsUpTo(n) ==
  IF n = 0 THEN { <<>> }
  ELSE LET shorter == StringsUpTo(n - 1)
       IN shorter \cup { Append(t, c) : t \in shorter, c \in EnvChars }

\* process.env: ADMIN_EMAILS unset or a string
AdminEnvs ==
  { [NODE_ENV |-> "production"] } \cup
  { [NODE_ENV |-> "production", ADMIN_EMAILS |-> t] : t \in StringsUpTo(MaxEnvLen) }

\* the app_users table: at most one row per id
AppUserTables ==
  { own \cup other :
      own \in { {} } \cup { { [id |-> "u1", is_admin |-> v] } :
                              v \in {"bool:true", "bool:false", "str:true"} },
      other \in { {}, { [id |-> "u2", is_admin |-> "bool:true"] } } }

\* auth.getUser(token) resolves to { data, error }; data.user may lack an
\* email
AdminAuthReplies ==
  { [error |-> TRUE, data |-> [user |-> [none |-> TRUE]]],
    [error |-> FALSE, data |-> [user |-> [none |-> TRUE]]],
    [error |-> FALSE, data |-> [user |-> [id |-> "u1"]]],
    [error |-> FALSE, data |-> [user |-> [id |-> "u1", email |-> <<>>]]],
    [error |-> FALSE, data |-> [user |-> [id |-> "u1", email |-> <<"a">>]]],
    [error |-> FALSE, data |-> [user |-> [id |-> "u1", email |-> <<"b">>]]],
    [error |-> FALSE, data |-> [user |-> [id |-> "u1", email |-> <<"a", "b">>]]] }

\* lines 12-15 without the filter(Boolean) of line 15
AdminEmails_Unfiltered(e) ==
  map_trim(split(IF "ADMIN_EMAILS" \in DOMAIN e THEN e.ADMIN_EMAILS ELSE <<>>,
                 ","))

\* lines 12-15
AdminEmails(e) ==
  filter_Boolean(map_trim(
    split(IF "ADMIN_EMAILS" \in DOMAIN e THEN e.ADMIN_EMAILS ELSE <<>>, ",")))

\* adminEmails.includes(x)
includes(a, x) == \E i \in 1..Len(a) : a[i] = x

\* lines 6-10 and 18: appUser?.is_admin === true, appUser being the one row
\* with the user's id, or null
AppUserIsAdmin(table, u) ==
  \E row \in table : row.id = u.id /\ row.is_admin = "bool:true"

\* lines 17-18
IsAdmin(e, table, u) ==
  \/ includes(AdminEmails(e), IF "email" \in DOMAIN u THEN u.email ELSE <<>>)
  \/ AppUserIsAdmin(table, u)

AdminInit ==
  /\ pc = "check_admin"
  /\ req \in [method : {"GET"},
              headers : {[host |-> "h", authorization |-> <<"Bearer ", "t1">>]},
              body : {[none |-> TRUE]}]
  /\ token = <<"t1">>
  /\ user = [id |-> "<unset>"]
  /\ weights = DEFAULT_WEIGHTS
  /\ details = [unset |-> TRUE]
  /\ score = 0
  /\ tier = "<unset>"
  /\ deepseekResp = [none |-> TRUE]
  /\ llmNarrative = Null
  /\ llmRecommendations = <<>>
  /\ profileId = 0
  /\ nextId = 1
  /\ profiles = {}
  /\ llm_outputs = {}
  /\ res = Respond(0, NoBody)
  /\ calls = <<>>
  /\ outcome = [auth |-> "none", weights |-> "none", gen |-> "none",
                profile |-> "none", llm |-> "none"]
  /\ env \in AdminEnvs
  /\ app_users \in AppUserTables

\* check-admin.ts lines 1-20
CheckAdmin ==
  /\ pc = "check_admin"
  /\ \E reply \in AdminAuthReplies :
       IF "id" \notin DOMAIN reply.data.user
       THEN /\ res' = Respond(200, [isAdmin |-> FALSE])
            /\ outcome' = [outcome EXCEPT !.auth = "rejected"]
            /\ user' = user
       ELSE /\ user' = reply.data.user
            /\ outcome' = [outcome EXCEPT !.auth = "user"]
            /\ res' = Respond(200, [isAdmin |-> IsAdmin(env, app_users, user')])
  /\ pc' = "done"
  /\ calls' = calls \o <<"getUser", "app_users.select">>
  /\ UNCHANGED <<req, token, weights, details, score, tier, deepseekResp,
                 llmNarrative, llmRecommendations, profileId, nextId,
                 profiles, llm_outputs, env, app_users>>

AdminNext == CheckAdmin

AdminSpec == AdminInit /\ [][AdminNext]_vars

(***************************************************************************)
(* Properties                                                              *)
(***************************************************************************)
Called(name) == \E i \in 1..Len(calls) : calls[i] = name

Computed == Called("compute")

IsErrorBody(body) == "error" \in DOMAIN body

IsSuccessBody(body) ==
  {"ok", "score", "tier", "explainability", "recommendations", "profileId"}
    \subseteq DOMAIN body

\* C1: a POST request ends in an error response only when the caller
\* identity is missing or invalid or when the profile-record insert fails,
\* and a request with a valid token whose profile-record insert succeeds ends
\* with the 200 success response.
C1_AbortOnlyOnAuthOrInsertFailure ==
  (pc = "done" /\ req.method = "POST") =>
    /\ res.status # 200 =>
         \/ TokenOf(req.headers) \notin ValidTokens
         \/ outcome.profile = "error"
    /\ (TokenOf(req.headers) \in ValidTokens /\ outcome.profile = "ok") =>
         (res.status = 200 /\ IsSuccessBody(res.body))

\* C2: a POST request whose caller identity is missing or invalid is answered
\* 401 and no weight read, computation, generation call or insert happens in
\* it.
C2_RejectedBeforeComputation ==
  (req.method = "POST" /\ TokenOf(req.headers) \notin ValidTokens) =>
    /\ \A i \in 1..Len(calls) : calls[i] = "getUser"
    /\ profiles = {} /\ llm_outputs = {}
    /\ outcome.weights = "none" /\ outcome.gen = "none"
    /\ outcome.profile = "none" /\ outcome.llm = "none"
    /\ pc \in {"received", "getUser", "done"}
    /\ pc = "done" => (res.status = 401 /\ IsErrorBody(res.body))

C2_Witness ==
  /\ pc = "done" /\ req.method = "POST"
  /\ token = <<"t0">> /\ outcome.auth = "rejected"
  /\ res.status = 401

\* C3: when the profile-record insert returns an error the response is a 500
\* error, never the success payload, although factors, score and tier were
\* computed, and no LLM-call record is inserted.
C3_ProfileInsertErrorIs500 ==
  outcome.profile = "error" =>
    /\ pc = "done"
    /\ res.status = 500 /\ IsErrorBody(res.body) /\ ~IsSuccessBody(res.body)
    /\ Computed
    /\ ~Called("llm_outputs.insert") /\ llm_outputs = {} /\ profiles = {}

C3_Witness ==
  /\ outcome.profile = "error" /\ pc = "done" /\ res.status = 500
  /\ Computed /\ tier = "Medium"
  /\ Truthy(llmNarrative) /\ Len(llmRecommendations) > 0

\* C4: whatever the LLM-call-record insert does (success, error result or
\* thrown exception), the step answers 200 with the score, tier,
\* explainability, recommendations and profileId fixed before the insert,
\* and leaves the profile record in place.
C4_LlmInsertFailureInvisible ==
  [][pc = "llm_insert" =>
       /\ res' = Respond(200, SuccessBody(profileId))
       /\ profiles' = profiles /\ InsertRow \in profiles'
       /\ pc' = "done"]_vars

C4_Witness ==
  /\ pc = "done" /\ outcome.llm \in {"error", "throw"}
  /\ res.status = 200 /\ res.body.profileId = profileId
  /\ llm_outputs = {} /\ profiles # {}

\* C5: after a generation call that fails, the narrative is null and the
\* recommendation list empty, the handler has gone on to the profile-record
\* insert, and the response is the success response unless that insert fails.
C5_GenerateFailureAbsorbed ==
  outcome.gen \in {"throw", "timeout"} =>
    /\ llmNarrative = Null /\ llmRecommendations = <<>>
    /\ Called("profiles.insert")
    /\ pc \in {"profile_insert", "done"}
    /\ pc = "done" => /\ outcome.profile # "none"
                      /\ outcome.profile = "ok" =>
                           (res.status = 200 /\ InsertRow \in profiles)

C5_Witness ==
  /\ outcome.gen = "throw" /\ pc = "done" /\ res.status = 200
  /\ llmNarrative = Null /\ llmRecommendations = <<>>
  /\ profiles # {}

C7_FallbackToDefault ==
  outcome.weights \in {"empty", "unavailable", "row_without_vector", "malformed"}
    => (weights = DEFAULT_WEIGHTS /\ ~IsNaN(score))

\* C8: the score computed, persisted and returned is an integer in [0,100].
C8_ScoreInRange ==
  /\ Computed => score \in 0..100
  /\ \A r \in profiles : r.risk_score \in 0..100
  /\ (pc = "done" /\ res.status = 200) => res.body.score \in 0..100

\* C9: the tier is Low for a score of at most 30, Medium for 31..60 and High
\* from 61 up, and every computed score has one of the three tiers.
C9_TierBoundaries ==
  Computed =>
    /\ tier \in {"Low", "Medium", "High"}
    /\ (~IsNaN(score) /\ score <= 30) => tier = "Low"
    /\ (~IsNaN(score) /\ score >= 31 /\ score <= 60) => tier = "Medium"
    /\ (~IsNaN(score) /\ score >= 61) => tier = "High"
    /\ (pc = "done" /\ res.status = 200) => res.body.tier = tier

C9_Witness ==
  /\ pc = "done" /\ res.status = 200
  /\ score = 30 /\ tier = "Low" /\ res.body.tier = "Low"

\* C10: an LLM-call record exists only for a narrative result with a
\* non-empty narrative or a recommendation, is inserted after the profile
\* record and carries its identifier; with no narrative and no
\* recommendation the profile record is inserted and no LLM-call record.
C10_LlmRecordOnlyWithOutput ==
  /\ \A r \in llm_outputs :
       /\ Truthy(r.response.narrative) \/ Len(r.response.recommendations) > 0
       /\ \E q \in profiles : q.id = r.profile_id
  /\ Called("llm_outputs.insert") =>
       /\ Truthy(llmNarrative) \/ Len(llmRecommendations) > 0
       /\ \E q \in profiles : q.id = profileId
  /\ (pc = "done" /\ outcome.profile = "ok"
      /\ ~Truthy(llmNarrative) /\ llmRecommendations = <<>>) =>
       /\ ~Called("llm_outputs.insert") /\ llm_outputs = {}
       /\ \E q \in profiles : q.id = profileId

C10_Witness ==
  /\ pc = "done" /\ res.status = 200
  /\ Len(llmRecommendations) > 0
  /\ \E r \in llm_outputs :
       /\ r.profile_id = profileId
       /\ r.response.recommendations = llmRecommendations
       /\ \E q \in profiles : q.id = r.profile_id

Placeholder == << <<"See dashboard for recommended actions.">> >>

\* C11: the recommendations of the success response are never empty: they
\* are the narrative result's list when it is non-empty and otherwise the one
\* placeholder string, on the parsed, the fallback and the failure path.
C11_RecommendationsNeverEmpty ==
  (pc = "done" /\ res.status = 200) =>
    /\ Len(res.body.recommendations) > 0
    /\ Len(llmRecommendations) > 0 => res.body.recommendations = llmRecommendations
    /\ Len(llmRecommendations) = 0 => res.body.recommendations = Placeholder

C11_Witness ==
  /\ pc = "done" /\ res.status = 200 /\ outcome.gen = "throw"
  /\ llmRecommendations = <<>> /\ res.body.recommendations = Placeholder

\* the profile of C12, with the network bucket left open
IsBestProfile(p, bucket) ==
  /\ p.skillProficiencyAvg = 50 /\ p.performanceRating = 50
  /\ p.linkedinNetworkSize = bucket /\ p.willingToRelocate = "Yes"
  /\ "noticePeriodDays" \in DOMAIN p /\ p.noticePeriodDays = 0
  /\ p.totalExperience = 5

MinimumRiskFactors ==
  [skillsRisk |-> 0, performanceRisk |-> 0, networkRisk |-> 10,
   mobilityRisk |-> 10, noticeRisk |-> 10, plateauRisk |-> 20]

OnFallbackPath ==
  /\ outcome.gen = "resp"
  /\ ~JSONparse(RawText(deepseekResp)).ok

\* C13: on the fallback path the narrative is the whole raw text and the
\* recommendations are the first 5 non-empty trimmed lines of it, empty
\* lines being skipped before counting to 5.
C13_FirstFiveNonEmptyLines ==
  OnFallbackPath =>
    /\ llmNarrative = RawText(deepseekResp)
    /\ llmRecommendations =
         slice0(filter_Boolean(map_trim(split(RawText(deepseekResp), "\n"))), 5)

\* C14: the recommendation list of the narrative result, of the profile
\* record, of the LLM-call record and of the response has at most 5 entries.
C14_AtMostFiveRecommendations ==
  /\ Len(llmRecommendations) <= 5
  /\ \A r \in profiles : Len(r.llm_recommendations) <= 5
  /\ \A r \in llm_outputs : Len(r.response.recommendations) <= 5
  /\ (pc = "done" /\ res.status = 200) => Len(res.body.recommendations) <= 5

\* C15: a service text that is a JSON document with the keys narrative and
\* recommendations gives exactly these two fields, in order, whether the
\* text comes from resp.text or from resp.choices[0].text; a document
\* without the recommendations key gives the empty list.
C15_ParsedFieldsExact ==
  outcome.gen = "resp" =>
    LET rawText == RawText(deepseekResp)
    IN /\ rawText = DocFull =>
            /\ llmNarrative = <<"x">>
            /\ llmRecommendations = << <<"a">>, <<"b">> >>
       /\ rawText = DocSixRecs =>
            /\ llmNarrative = <<"x">>
            /\ llmRecommendations =
                 << <<"a">>, <<"b">>, <<"a">>, <<"b">>, <<"a">>, <<"b">> >>
       /\ rawText = DocEmpty =>
            (llmNarrative = <<>> /\ llmRecommendations = <<>>)
       /\ rawText = DocNarrativeOnly =>
            (llmNarrative = <<"x">> /\ llmRecommendations = <<>>)

C15_Witness ==
  /\ pc = "done" /\ res.status = 200 /\ outcome.gen = "resp"
  /\ "text" \notin DOMAIN deepseekResp
  /\ RawText(deepseekResp) = DocSixRecs
  /\ llmNarrative = <<"x">> /\ Len(llmRecommendations) = 6

\* C17: every factor is in [0,100] for every profile, the two ratings being
\* clamped to [0,5] before scaling.
C17_FactorsInRange ==
  Computed =>
    /\ details.skillsRisk \in 0..100
    /\ details.performanceRisk \in 0..100
    /\ details.networkRisk \in 0..100
    /\ details.mobilityRisk \in 0..100
    /\ details.noticeRisk \in 0..100
    /\ details.plateauRisk \in 0..100

NegativeAsZero(w) == [k \in WeightKeys |-> Max(0, w[k])]

\* C18: with a stored vector of six weights, the score equals the score
\* computed with the negative weights replaced by 0.
C18_NegativeWeightAsZero ==
  (Computed /\ WeightKeys \subseteq DOMAIN weights) =>
    score = Score(details, NegativeAsZero(weights))

\* C19: score, tier, factors and explainability, as held, persisted and
\* returned, are determined by the profile and the resolved weight vector
\* alone, whatever the generation call did.
C19_NarrativeDoesNotInfluenceScore ==
  LET d == Factors(req.body)
      sc == Score(d, weights)
  IN /\ Called("deepseekGenerate") =>
          (details = d /\ score = sc /\ tier = Tier(sc))
     /\ \A r \in profiles : r.risk_score = sc /\ r.risk_details = d
     /\ (pc = "done" /\ res.status = 200) =>
          /\ res.body.score = sc /\ res.body.tier = Tier(sc)
          /\ res.body.explainability = Explainability(req.body, d)

C19_Witness ==
  /\ pc = "done" /\ res.status = 200 /\ outcome.gen = "timeout"
  /\ llmNarrative = Null /\ score = 61 /\ res.body.tier = "High"
  /\ \E r \in profiles : r.risk_score = 61

\* C16: noticeRisk is 80 from 90 days, 70 from 60, 50 from 30, 30 from 15,
\* 20 from 7 and 10 below 7; a missing notice period counts as 30 days and
\* gives 50.
C16_NoticeRiskSteps ==
  pc = "factors_done" =>
    LET p == req.body
        n == details.noticeRisk
    IN IF "noticePeriodDays" \notin DOMAIN p
       THEN n = 50
       ELSE LET days == p.noticePeriodDays
            IN /\ days >= 90 => n = 80
               /\ (days >= 60 /\ days <= 89) => n = 70
               /\ (days >= 30 /\ days <= 59) => n = 50
               /\ (days >= 15 /\ days <= 29) => n = 30
               /\ (days >= 7 /\ days <= 14) => n = 20
               /\ days <= 6 => n = 10

C16_Witness ==
  /\ pc = "factors_done"
  /\ "noticePeriodDays" \in DOMAIN req.body
  /\ req.body.noticePeriodDays = 90 /\ details.noticeRisk = 80

\* the entries of a comma-separated string: for every maximal run without a
\* comma, the run with its outer spaces removed
ListEntries(t) ==
  { trim(SubSeq(t, i, j)) :
      <<i, j>> \in { ij \in (1..(Len(t) + 1)) \X (0..Len(t)) :
                       /\ ij[1] <= ij[2] + 1
                       /\ ij[1] = 1 \/ t[ij[1] - 1] = ","
                       /\ ij[2] = Len(t) \/ t[ij[2] + 1] = ","
                       /\ \A k \in ij[1]..ij[2] : t[k] # "," } }

EmailListed ==
  /\ "email" \in DOMAIN user /\ user.email # <<>>
  /\ "ADMIN_EMAILS" \in DOMAIN env
  /\ user.email \in ListEntries(env.ADMIN_EMAILS)

\* C20: the admin check answers isAdmin = true exactly when the token
\* resolves to a user and that user's email is a non-empty trimmed entry of
\* ADMIN_EMAILS or the user's app_users row has is_admin === true; no user
\* gives false, and a user without email is not admin through the list.
C20_AdminExactly ==
  pc = "done" =>
    /\ res.status = 200
    /\ res.body.isAdmin <=>
         /\ outcome.auth = "user"
         /\ \/ EmailListed
            \/ \E row \in app_users :
                 row.id = user.id /\ row.is_admin = "bool:true"

C20_Witness ==
  /\ pc = "done" /\ outcome.auth = "user"
  /\ "email" \notin DOMAIN user
  /\ "ADMIN_EMAILS" \in DOMAIN env /\ env.ADMIN_EMAILS = <<"a", ",", " ">>
  /\ app_users = { [id |-> "u2", is_admin |-> "bool:true"] }
  /\ res.body.isAdmin = FALSE

====
